---- MODULE Spec2Model ----
(***************************************************************************)
(* A model of qecc.PauliList (src/src/qecc/paulicollections.py): a list    *)
(* subclass whose constructor canonicalises its elements with              *)
(* ensure_pauli, whose slicing and concatenation re-wrap their results,    *)
(* and whose algebraic methods delegate to the Pauli algebra               *)
(* (Pauli.centralizer_gens, as_unitary, elem_gens), the group enumeration  *)
(* (from_generators) and the eigenspace routine (mutual_eigenspace).       *)
(*                                                                         *)
(* Python values are records [t, op, ph, items]: t is the Python type,     *)
(* op the letters of a string or of a Pauli, ph a Pauli's phase (a power   *)
(* of i), items the elements of a list or PauliList.                       *)
(***************************************************************************)
EXTENDS Integers, Sequences, FiniteSets, TLC

VARIABLES
    args,      \* the argument tuple the constructor is called with
    coll,      \* the constructed PauliList (the receiver of every method)
    spread,    \* PauliList(*s) when args is the single sequence s
    pc,        \* "new", "failed", "ready", "done"; "call" and "ret" inside centralizer_gens
    out,       \* the outcome of the last operation
    frame,     \* centralizer_gens: the arguments of the invocation in progress
    depth,     \* centralizer_gens: invocations on the Python stack
    calls,     \* centralizer_gens: the per-operator calls made so far
    cz_gens    \* centralizer_gens: the group_gens the caller passed

vars == <<args, coll, spread, pc, out, frame, depth, calls, cz_gens>>

----------------------------------------------------------------------------
(* Bounds of the model.                                                    *)

\* the longest argument tuple, and the longest sequence passed as one argument
MaxLen == 2
\* the longest explicitly supplied group_gens
MaxGens == 2
\* the longest other operand of a concatenation
MaxOther == 1
\* the largest repetition count of list.__mul__
MaxRep == 2

\* the operator strings the inputs are drawn from (two qubits each)
PauliStrs == { <<"X", "X">>, <<"Z", "Z">>, <<"I", "Y">> }
\* the phases of the Pauli objects passed in
RawPhases == {0, 1}

----------------------------------------------------------------------------
(* Python values.                                                          *)

Str(s)        == [t |-> "str", op |-> s, ph |-> 0, items |-> <<>>]
Pauli(s, p)   == [t |-> "Pauli", op |-> s, ph |-> p, items |-> <<>>]
Unspecified   == [t |-> "Unspecified", op |-> <<>>, ph |-> 0, items |-> <<>>]
None          == [t |-> "NoneType", op |-> <<>>, ph |-> 0, items |-> <<>>]
PyList(xs)    == [t |-> "list", op |-> <<>>, ph |-> 0, items |-> xs]
PyTuple(xs)   == [t |-> "tuple", op |-> <<>>, ph |-> 0, items |-> xs]
MkPauliList(xs) == [t |-> "PauliList", op |-> <<>>, ph |-> 0, items |-> xs]
Raise(e)      == [t |-> "error", op |-> e, ph |-> 0, items |-> <<>>]

IsError(v) == v.t = "error"

\* isinstance(x, collections.Sequence): str, tuple and list (and its subclasses)
\* are registered; Pauli and Unspecified are not
IsSequence(x) == x.t \in {"str", "list", "tuple", "PauliList"}
\* isinstance(x, str)
IsStr(x) == x.t = "str"
\* isinstance(x, list)
IsList(x) == x.t \in {"list", "PauliList"}

SeqsUpTo(S, n) == UNION { [1..k -> S] : k \in 0..n }

Map(f(_), xs) == [k \in 1..Len(xs) |-> f(xs[k])]

----------------------------------------------------------------------------
(* The Pauli algebra consumed by the collection.                           *)

\* ensure_pauli: Unspecified and Paulis pass through, a string is parsed by
\* the Pauli constructor (phase 0), anything else is refused
ensure_pauli(x) ==
    IF x.t = "Unspecified" THEN x
    ELSE IF x.t = "str" THEN Pauli(x.op, 0)
    ELSE IF x.t = "Pauli" THEN x
    ELSE Raise("InvalidOperatorError")

\* map(ensure_pauli, xs): the first refusal propagates
map_ensure_pauli(xs) ==
    LET ys == Map(ensure_pauli, xs)
    IN  IF \E k \in 1..Len(ys) : IsError(ys[k])
        THEN Raise("InvalidOperatorError")
        ELSE PyList(ys)


\* the product of two single-qubit letters: the letter and the power of i
LetterMul(a, b) ==
    IF a = "I" THEN [l |-> b, ph |-> 0]
    ELSE IF b = "I" THEN [l |-> a, ph |-> 0]
    ELSE IF a = b THEN [l |-> "I", ph |-> 0]
    ELSE IF <<a, b>> = <<"X", "Y">> THEN [l |-> "Z", ph |-> 1]
    ELSE IF <<a, b>> = <<"Y", "Z">> THEN [l |-> "X", ph |-> 1]
    ELSE IF <<a, b>> = <<"Z", "X">> THEN [l |-> "Y", ph |-> 1]
    ELSE IF <<a, b>> = <<"Y", "X">> THEN [l |-> "Z", ph |-> 3]
    ELSE IF <<a, b>> = <<"Z", "Y">> THEN [l |-> "X", ph |-> 3]
    ELSE [l |-> "Y", ph |-> 3]

RECURSIVE SumPh(_, _, _)
SumPh(P, Q, k) ==
    IF k = 0 THEN 0 ELSE LetterMul(P.op[k], Q.op[k]).ph + SumPh(P, Q, k - 1)

\* Pauli.__mul__: letter by letter, the phases added modulo 4
pauli_mul(P, Q) ==
    Pauli([k \in 1..Len(P.op) |-> LetterMul(P.op[k], Q.op[k]).l],
          (P.ph + Q.ph + SumPh(P, Q, Len(P.op))) % 4)

\* com(P, Q): 0 when P and Q commute, 1 when they anticommute
com(P, Q) ==
    Cardinality({ k \in 1..Len(P.op) :
                    /\ P.op[k] # "I"
                    /\ Q.op[k] # "I"
                    /\ P.op[k] # Q.op[k] }) % 2

\* elem_gens(n): the single-qubit X generators and the single-qubit Z generators
elem_gens(n) ==
    [Xs |-> [q \in 1..n |-> Pauli([k \in 1..n |-> IF k = q THEN "X" ELSE "I"], 0)],
     Zs |-> [q \in 1..n |-> Pauli([k \in 1..n |-> IF k = q THEN "Z" ELSE "I"], 0)]]

\* Pauli.centralizer_gens(group_gens) on the elements of group_gens: a
\* generator that commutes with P is kept; one that anticommutes is multiplied
\* by the next anticommuting generator, and dropped when there is none
RECURSIVE pauli_centralizer(_, _)
pauli_centralizer(P, gens) ==
    IF gens = <<>> THEN <<>>
    ELSE IF com(P, gens[1]) = 0
         THEN <<gens[1]>> \o pauli_centralizer(P, Tail(gens))
         ELSE LET anti == { k \in 2..Len(gens) : com(P, gens[k]) = 1 }
              IN  IF anti = {}
                  THEN Tail(gens)
                  ELSE LET k == CHOOSE m \in anti : \A m2 \in anti : m <= m2
                       IN  <<pauli_mul(gens[k], gens[1])>>
                           \o pauli_centralizer(P, Tail(gens))

\* P.centralizer_gens(group_gens=group_gens) as the collection calls it: only
\* a Pauli has the method
Pauli_centralizer_gens(P, group_gens) ==
    IF P.t # "Pauli" THEN Raise("AttributeError")
    ELSE MkPauliList(pauli_centralizer(P, group_gens.items))

\* len(P): the number of qubits of a Pauli; Unspecified has no length
HasLen(P) == P.t = "Pauli"
pauli_len(P) == Len(P.op)

\* Pauli.as_unitary(): the matrix of the operator, named by the operator
as_unitary(P) == [t |-> "matrix", op |-> P.op, ph |-> P.ph, items |-> <<>>]

\* unitary_reps.mutual_eigenspace(matrices): the basis array of the mutual +1
\* eigenspace, named by the matrices; RuntimeError without NumPy
mutual_eigenspace(matrices, numpy) ==
    IF numpy
    THEN [t |-> "ndarray", op |-> <<>>, ph |-> 0, items |-> matrices]
    ELSE Raise("RuntimeError")

\* from_generators(gens): a lazy enumeration of the generated group; nothing
\* is computed or checked before the first element is asked for
from_generators(gens) ==
    [t |-> "generator", op |-> <<>>, ph |-> 0, items |-> gens.items]

----------------------------------------------------------------------------
(* PauliList.__init__                                                      *)

\* a slip: the single-argument test forgets to exclude strings, so that
\* PauliList("XX") is expanded letter by letter
PauliList_init_expands_str(paulis) ==
    LET mapped == IF Len(paulis) = 1 /\ IsSequence(paulis[1])
                  THEN IF IsStr(paulis[1])
                       THEN map_ensure_pauli(
                              [k \in 1..Len(paulis[1].op) |-> Str(<<paulis[1].op[k]>>)])
                       ELSE map_ensure_pauli(paulis[1].items)
                  ELSE map_ensure_pauli(paulis)
    IN  IF IsError(mapped) THEN mapped ELSE MkPauliList(mapped.items)

\* a slip: a single sequence argument is expanded only when it has several
\* elements
PauliList_init_no_short_seq(paulis) ==
    LET mapped == IF Len(paulis) = 1 /\ IsSequence(paulis[1]) /\ ~IsStr(paulis[1])
                     /\ Len(paulis[1].items) > 1
                  THEN map_ensure_pauli(paulis[1].items)
                  ELSE map_ensure_pauli(paulis)
    IN  IF IsError(mapped) THEN mapped ELSE MkPauliList(mapped.items)

\* PauliList(*paulis): the new collection, or the error raised
PauliList_init(paulis) ==
    LET mapped == IF Len(paulis) = 1 /\ IsSequence(paulis[1]) /\ ~IsStr(paulis[1])
                  THEN map_ensure_pauli(paulis[1].items)
                  ELSE map_ensure_pauli(paulis)
    IN  IF IsError(mapped) THEN mapped ELSE MkPauliList(mapped.items)

----------------------------------------------------------------------------
(* The list operations PauliList inherits, and the ones it overrides.      *)

Min(a, b) == IF a < b THEN a ELSE b
Max(a, b) == IF a > b THEN a ELSE b

\* the index the interpreter hands to __getslice__ for c[i:j]: a negative
\* bound has len(c) added once
PySliceIndex(n, i) == IF i < 0 THEN i + n ELSE i

\* list.__getslice__(i, j): the bounds are clamped to 0..len
list_getslice(items, i, j) ==
    LET n  == Len(items)
        lo == Min(Max(i, 0), n)
        hi == Min(Max(j, lo), n)
    IN  PyList(SubSeq(items, lo + 1, hi))

\* list.__getitem__(i) for an integer i
list_getitem_int(items, i) ==
    LET n == Len(items)
        k == IF i < 0 THEN i + n ELSE i
    IN  IF k < 0 \/ k >= n THEN Raise("IndexError") ELSE items[k + 1]

\* list.__getitem__(slice(None, None, step)) for step 2 and step -1
list_getitem_step(items, step) ==
    LET n == Len(items)
    IN  IF step = -1
        THEN PyList([k \in 1..n |-> items[n + 1 - k]])
        ELSE PyList([k \in 1..((n + step - 1) \div step) |-> items[(k - 1) * step + 1]])

\* list.__add__(a, b): defined between lists only
list_add(a, b) ==
    IF IsList(b) THEN PyList(a.items \o b.items) ELSE Raise("TypeError")

RECURSIVE Repeat(_, _)
Repeat(xs, n) == IF n <= 0 THEN <<>> ELSE xs \o Repeat(xs, n - 1)

\* list.__mul__(n), which PauliList does not override
list_mul(self, n) == PyList(Repeat(self.items, n))

\* PauliList.__getitem__(arg): an integer gives the element, a slice object
\* a list, which is wrapped
PauliList_getitem(self, item) ==
    IF ~IsList(item) THEN item ELSE PauliList_init(item.items)

\* a slip: the slice is returned as list.__getslice__ made it
PauliList_getslice_bare(self, i, j) == list_getslice(self.items, i, j)

\* PauliList.__getslice__(i, j)
PauliList_getslice(self, i, j) ==
    PauliList_init(list_getslice(self.items, i, j).items)

\* PauliList.__add__(other)
PauliList_add(self, other) ==
    LET sum == list_add(self, other)
    IN  IF IsError(sum) THEN sum ELSE PauliList_init(sum.items)

----------------------------------------------------------------------------
(* PauliList.generated_group, stabilizer_subspace and centralizer_gens.    *)

\* PauliList.generated_group()
generated_group(self) == from_generators(self)

\* a slip: the Unspecified entries are not filtered out
stabilizer_unitaries_unfiltered(self) == Map(as_unitary, self.items)

\* [P.as_unitary() for P in self if P is not Unspecified]
stabilizer_unitaries(self) ==
    Map(as_unitary, SelectSeq(self.items, LAMBDA P : P # Unspecified))

\* PauliList.stabilizer_subspace(): what the eigenspace routine returns
stabilizer_subspace(self, numpy) ==
    mutual_eigenspace(stabilizer_unitaries(self), numpy)

\* what one invocation of centralizer_gens does: raise, return a value, or
\* call itself on the rest; called, P and gens describe the per-operator
\* call it made
CzRaise(e) ==
    [k |-> "raise", val |-> e, self |-> None, group_gens |-> None,
     called |-> FALSE, P |-> None, gens |-> None]
CzReturn(v, called, P, gens) ==
    [k |-> "return", val |-> v, self |-> None, group_gens |-> None,
     called |-> called, P |-> P, gens |-> gens]
CzRecurse(rest, next_gens, P, gens) ==
    [k |-> "recurse", val |-> next_gens, self |-> rest, group_gens |-> next_gens,
     called |-> TRUE, P |-> P, gens |-> gens]

\* Xs, Zs = elem_gens(len(first)); Xs + Zs, where first is self[0] or the
\* IndexError self[0] raised
default_group_gens(first) ==
    IF IsError(first) THEN first
    ELSE IF ~HasLen(first) THEN Raise("TypeError")
    ELSE list_add(PyList(elem_gens(pauli_len(first)).Xs),
                  PyList(elem_gens(pauli_len(first)).Zs))

\* the group_gens the invocation works with: the argument, or the default
\* built from the first element when the argument is None
centralizer_group_gens(self, group_gens) ==
    IF group_gens # None THEN group_gens
    ELSE default_group_gens(PauliList_getitem(self, list_getitem_int(self.items, 0)))

\* a slip: the rest of the collection is narrowed against group_gens, not
\* against the generators the first element left
centralizer_rest_same_gens(self, first, gens, centralizer_0) ==
    IF IsError(centralizer_0) THEN CzRaise(centralizer_0)
    ELSE IF Len(self.items) = 1 THEN CzReturn(centralizer_0, TRUE, first, gens)
    ELSE CzRecurse(PauliList_getslice(self, 1, Len(self.items)), gens, first, gens)

\* a slip: a collection of two elements is answered like one of one element
centralizer_rest_stops_early(self, first, gens, centralizer_0) ==
    IF IsError(centralizer_0) THEN CzRaise(centralizer_0)
    ELSE IF Len(self.items) <= 2 THEN CzReturn(centralizer_0, TRUE, first, gens)
    ELSE CzRecurse(PauliList_getslice(self, 1, Len(self.items)),
                   centralizer_0, first, gens)

\* with centralizer_0 computed: return it for a one-element collection, else
\* narrow self[1:] against it; self[1:] reaches __getslice__ with the bounds 1
\* and sys.maxint, which list clamps to len(self)
centralizer_rest(self, first, gens, centralizer_0) ==
    IF IsError(centralizer_0) THEN CzRaise(centralizer_0)
    ELSE IF Len(self.items) = 1 THEN CzReturn(centralizer_0, TRUE, first, gens)
    ELSE CzRecurse(PauliList_getslice(self, 1, Len(self.items)),
                   centralizer_0, first, gens)

\* centralizer_0 = self[0].centralizer_gens(group_gens=group_gens)
centralizer_first(self, first, gens) ==
    centralizer_rest(self, first, gens, Pauli_centralizer_gens(first, gens))

\* a slip: the empty collection answers with an empty PauliList
centralizer_narrow_empty(self, gens) ==
    IF IsError(gens) THEN CzRaise(gens)
    ELSE IF Len(self.items) = 0
    THEN CzReturn(PauliList_init(<<>>), FALSE, None, gens)
    ELSE centralizer_first(self,
             PauliList_getitem(self, list_getitem_int(self.items, 0)), gens)

\* with group_gens settled: the empty collection returns PauliList(group_gens),
\* any other goes on with its first element
centralizer_narrow(self, gens) ==
    IF IsError(gens) THEN CzRaise(gens)
    ELSE IF Len(self.items) = 0
    THEN CzReturn(PauliList_init(<<gens>>), FALSE, None, gens)
    ELSE centralizer_first(self,
             PauliList_getitem(self, list_getitem_int(self.items, 0)), gens)

\* one invocation of PauliList.centralizer_gens(group_gens)
centralizer_gens(self, group_gens) ==
    centralizer_narrow(self, centralizer_group_gens(self, group_gens))

----------------------------------------------------------------------------
(* Inputs.                                                                 *)

RawElems == { Str(s) : s \in PauliStrs }
            \cup { Pauli(s, p) : s \in PauliStrs, p \in RawPhases }
            \cup { Unspecified }

\* one positional argument: a raw element, or a list or tuple of raw elements
RawSeqs == { PyList(xs) : xs \in SeqsUpTo(RawElems, MaxLen) }
           \cup { PyTuple(xs) : xs \in SeqsUpTo(RawElems, MaxLen) }

ArgTuples == SeqsUpTo(RawElems, MaxLen)
             \cup { <<s>> : s \in RawSeqs }
             \cup { <<s, r>> : s \in { PyList(<<>>) }, r \in RawElems }

\* the elements a collection can hold
Elems == { ensure_pauli(r) : r \in RawElems }

\* the other operand of a concatenation: a list, a tuple or a PauliList
Others == { PyList(xs) : xs \in SeqsUpTo(Elems, MaxOther) }
          \cup { MkPauliList(xs) : xs \in SeqsUpTo(Elems, MaxOther) }
          \cup { PyTuple(<<>>) }

\* the generators an explicit group_gens is made of, and the group_gens passed
GenPaulis == { Pauli(s, 0) : s \in PauliStrs }
GroupGens == { PyList(xs) : xs \in SeqsUpTo(GenPaulis, MaxGens) }
             \cup { MkPauliList(xs) : xs \in SeqsUpTo(GenPaulis, MaxGens) }
             \cup { None }

\* slice bounds and indices
Indices == (0 - MaxLen - 1) .. (MaxLen + 1)

NoOut == [op |-> "none", val |-> None, a |-> None, b |-> None, i |-> 0, j |-> 0]
Outcome(o, v, a, b, i, j) == [op |-> o, val |-> v, a |-> a, b |-> b, i |-> i, j |-> j]

NoFrame == [self |-> None, group_gens |-> None]

Init ==
    /\ args \in ArgTuples
    /\ coll = None
    /\ spread = None
    /\ pc = "new"
    /\ out = NoOut
    /\ frame = NoFrame
    /\ depth = 0
    /\ calls = <<>>
    /\ cz_gens = None

\* PauliList(*args); with a single non-string sequence argument s the
\* variadic construction PauliList(*s) is made next to it
Construct ==
    /\ pc = "new"
    /\ LET made == PauliList_init(args)
       IN  /\ coll' = made
           /\ pc' = IF IsError(made) THEN "failed" ELSE "done"
           /\ out' = Outcome("__init__", made, None, None, 0, 0)
    /\ spread' = IF Len(args) = 1 /\ IsSequence(args[1]) /\ ~IsStr(args[1])
                 THEN PauliList_init(args[1].items)
                 ELSE None
    /\ UNCHANGED <<args, frame, depth, calls, cz_gens>>

\* c[i]
GetItem(i) ==
    /\ pc = "ready"
    /\ out' = Outcome("__getitem__",
                      PauliList_getitem(coll, list_getitem_int(coll.items, i)),
                      None, None, i, 0)
    /\ pc' = "done"
    /\ UNCHANGED <<args, coll, spread, frame, depth, calls, cz_gens>>

\* c[::step], which reaches __getitem__ with a slice object
GetItemStep(step) ==
    /\ pc = "ready"
    /\ out' = Outcome("__getitem__slice",
                      PauliList_getitem(coll, list_getitem_step(coll.items, step)),
                      None, None, step, 0)
    /\ pc' = "done"
    /\ UNCHANGED <<args, coll, spread, frame, depth, calls, cz_gens>>

\* c[i:j], which reaches __getslice__ with the bounds made non-negative
GetSlice(i, j) ==
    /\ pc = "ready"
    /\ out' = Outcome("__getslice__",
                      PauliList_getslice(coll, PySliceIndex(Len(coll.items), i),
                                               PySliceIndex(Len(coll.items), j)),
                      None, None, i, j)
    /\ pc' = "done"
    /\ UNCHANGED <<args, coll, spread, frame, depth, calls, cz_gens>>

\* c + other
Add(other) ==
    /\ pc = "ready"
    /\ out' = Outcome("__add__", PauliList_add(coll, other), other, None, 0, 0)
    /\ pc' = "done"
    /\ UNCHANGED <<args, coll, spread, frame, depth, calls, cz_gens>>

\* other + c for a plain list other: list.__add__ answers, PauliList has no
\* __radd__
RAdd(other) ==
    /\ pc = "ready"
    /\ other.t = "list"
    /\ out' = Outcome("__radd__", list_add(other, coll), other, None, 0, 0)
    /\ pc' = "done"
    /\ UNCHANGED <<args, coll, spread, frame, depth, calls, cz_gens>>

\* c * n
Mul(n) ==
    /\ pc = "ready"
    /\ out' = Outcome("__mul__", list_mul(coll, n), None, None, n, 0)
    /\ pc' = "done"
    /\ UNCHANGED <<args, coll, spread, frame, depth, calls, cz_gens>>

\* c.generated_group()
GeneratedGroup ==
    /\ pc = "ready"
    /\ out' = Outcome("generated_group", generated_group(coll), None, None, 0, 0)
    /\ pc' = "done"
    /\ UNCHANGED <<args, coll, spread, frame, depth, calls, cz_gens>>

\* c.stabilizer_subspace(), with NumPy importable or not; a is the list
\* handed to mutual_eigenspace and b what mutual_eigenspace gave back
StabilizerSubspace(numpy) ==
    /\ pc = "ready"
    /\ out' = Outcome("stabilizer_subspace", stabilizer_subspace(coll, numpy),
                      PyList(stabilizer_unitaries(coll)),
                      mutual_eigenspace(stabilizer_unitaries(coll), numpy), 0, 0)
    /\ pc' = "done"
    /\ UNCHANGED <<args, coll, spread, frame, depth, calls, cz_gens>>

\* c.centralizer_gens(group_gens) is called: the first invocation is entered
CentralizerGens(group_gens) ==
    /\ pc = "ready"
    /\ pc' = "call"
    /\ frame' = [self |-> coll, group_gens |-> group_gens]
    /\ depth' = 1
    /\ calls' = <<>>
    /\ cz_gens' = group_gens
    /\ UNCHANGED <<args, coll, spread, out>>

\* what an invocation's outcome r does to the state: an exception unwinds
\* every invocation, a return starts the unwinding, a recursive call enters
\* the next invocation
CzApply(r) ==
    /\ calls' = IF r.called
                THEN Append(calls, [P |-> r.P, gens |-> r.gens, result |-> r.val])
                ELSE calls
    /\ frame' = IF r.k = "recurse"
                THEN [self |-> r.self, group_gens |-> r.group_gens]
                ELSE frame
    /\ out' = IF r.k = "recurse"
              THEN out
              ELSE Outcome("centralizer_gens", r.val, None, None, 0, 0)
    /\ pc' = CASE r.k = "recurse" -> "call"
               [] r.k = "return"  -> "ret"
               [] OTHER           -> "done"
    /\ depth' = CASE r.k = "recurse" -> depth + 1
                  [] r.k = "return"  -> depth
                  [] OTHER           -> 0

\* the invocation in progress runs
CzInvoke ==
    /\ pc = "call"
    /\ CzApply(centralizer_gens(frame.self, frame.group_gens))
    /\ UNCHANGED <<args, coll, spread, cz_gens>>

\* an invocation returns to its caller the value its callee returned
CzUnwind ==
    /\ pc = "ret"
    /\ depth' = depth - 1
    /\ pc' = IF depth = 1 THEN "done" ELSE "ret"
    /\ UNCHANGED <<args, coll, spread, out, frame, calls, cz_gens>>

\* the caller is done with the outcome (and, after the construction, with
\* the argument tuple) and goes on to the next operation on the collection
Continue ==
    /\ pc = "done"
    /\ pc' = "ready"
    /\ args' = <<>>
    /\ spread' = None
    /\ out' = NoOut
    /\ frame' = NoFrame
    /\ depth' = 0
    /\ calls' = <<>>
    /\ cz_gens' = None
    /\ UNCHANGED coll

Next ==
    \/ Construct
    \/ Continue
    \/ \E i \in Indices : GetItem(i)
    \/ \E step \in {2, -1} : GetItemStep(step)
    \/ \E i, j \in Indices : GetSlice(i, j)
    \/ \E other \in Others : Add(other)
    \/ \E other \in Others : RAdd(other)
    \/ \E n \in 0..MaxRep : Mul(n)
    \/ GeneratedGroup
    \/ \E numpy \in BOOLEAN : StabilizerSubspace(numpy)
    \/ \E group_gens \in GroupGens : CentralizerGens(group_gens)
    \/ CzInvoke
    \/ CzUnwind

Spec == Init /\ [][Next]_vars

----------------------------------------------------------------------------
(* The properties checked.                                                 *)

FullySpecified(c) == \A k \in 1..Len(c.items) : c.items[k].t = "Pauli"
HasUnspecified(c) == \E k \in 1..Len(c.items) : c.items[k] = Unspecified

\* the entries of xs other than Unspecified, in order
RECURSIVE NonUnspecified(_)
NonUnspecified(xs) ==
    IF xs = <<>> THEN <<>>
    ELSE IF Head(xs).t = "Unspecified" THEN NonUnspecified(Tail(xs))
    ELSE <<Head(xs)>> \o NonUnspecified(Tail(xs))

\* the elements of xs at the 0-based positions lo, lo+1, ..., hi-1
Range0(xs, lo, hi) == [m \in 1..Max(0, hi - lo) |-> xs[lo + m]]

\* the centralizer_gens call has returned or raised
CzDone == pc = "done" /\ out.op = "centralizer_gens"

\* C1: PauliList(r_1, ..., r_m) of raw elements (strings, Paulis,
\* Unspecified) has length m and its i-th element is ensure_pauli(r_i); a
\* single string argument is one element, not a sequence of letters.
C1_ConstructElementwise ==
    (out.op = "__init__" /\ \A k \in 1..Len(args) : args[k] \in RawElems) =>
        /\ out.val.t = "PauliList"
        /\ coll = out.val
        /\ Len(out.val.items) = Len(args)
        /\ \A k \in 1..Len(args) : out.val.items[k] = ensure_pauli(args[k])

\* C1 witness: PauliList("XX")-like call, one string argument, one element.
C1_Witness ==
    /\ out.op = "__init__"
    /\ Len(args) = 1
    /\ args[1].t = "str"
    /\ Len(args[1].op) = 2
    /\ out.val.items = <<Pauli(args[1].op, 0)>>

\* C2: constructing from the single non-string sequence s gives the same
\* collection as constructing from the elements of s as a variadic list.
C2_SequenceEqualsVariadic ==
    (out.op = "__init__" /\ Len(args) = 1 /\ IsSequence(args[1]) /\ ~IsStr(args[1])) =>
        /\ out.val.t = "PauliList"
        /\ spread = out.val

\* C2 witness: a one-element list holding a string was passed, and both
\* constructions made the one-element collection.
C2_Witness ==
    /\ out.op = "__init__"
    /\ Len(args) = 1
    /\ args[1].t = "list"
    /\ Len(args[1].items) = 1
    /\ args[1].items[1].t = "str"
    /\ spread.t = "PauliList"
    /\ Len(spread.items) = 1
    /\ out.val = spread

\* C3: a slice of a collection is a PauliList holding the elements of the
\* range in order, and a + b of two collections is a PauliList holding the
\* elements of a followed by those of b, whatever the length of the result.
C3_SliceAndAddWrap ==
    /\ out.op = "__getslice__" =>
          /\ out.val.t = "PauliList"
          /\ out.val.items =
                Range0(coll.items,
                       Max(0, IF out.i < 0 THEN out.i + Len(coll.items) ELSE out.i),
                       Min(Len(coll.items),
                           IF out.j < 0 THEN out.j + Len(coll.items) ELSE out.j))
    /\ out.op = "__getitem__slice" =>
          /\ out.val.t = "PauliList"
          /\ out.i = -1 =>
                /\ Len(out.val.items) = Len(coll.items)
                /\ \A k \in 1..Len(coll.items) :
                      out.val.items[k] = coll.items[Len(coll.items) + 1 - k]
          /\ out.i = 2 =>
                /\ Len(out.val.items) = (Len(coll.items) + 1) \div 2
                /\ \A k \in 1..Len(out.val.items) :
                      out.val.items[k] = coll.items[2 * k - 1]
    /\ (out.op = "__add__" /\ out.a.t = "PauliList") =>
          /\ out.val.t = "PauliList"
          /\ out.val.items = coll.items \o out.a.items

\* C3 witness: c[i:j] of a two-element collection gave a one-element slice.
C3_Witness ==
    /\ out.op = "__getslice__"
    /\ Len(coll.items) = 2
    /\ out.val.t = "PauliList"
    /\ out.val.items = <<coll.items[2]>>

\* C4: every sequence-valued result of a sequence operation on a collection
\* (slicing, concatenation on either side, repetition) is a PauliList.
C4_ClosedUnderSequenceOps ==
    (/\ out.op \in {"__getslice__", "__getitem__slice", "__add__", "__radd__", "__mul__"}
     /\ ~IsError(out.val)) =>
        out.val.t = "PauliList"

\* C5: centralizer_gens() on the empty collection with group_gens omitted
\* returns the standard X/Z generators instead of failing.
C5_EmptyDefaultReturnsGenerators ==
    (CzDone /\ coll.items = <<>> /\ cz_gens = None) =>
        /\ out.val.t = "PauliList"
        /\ \E s \in PauliStrs :
              out.val.items = elem_gens(Len(s)).Xs \o elem_gens(Len(s)).Zs

\* C6: centralizer_gens(group_gens=G) on the empty collection returns a
\* PauliList with the elements of G in order, makes no per-operator
\* centralizer call and leaves G as it was (group_gens still names the
\* object the caller passed).
C6_EmptyReturnsGroupGens ==
    (CzDone /\ coll.items = <<>> /\ cz_gens # None) =>
        /\ out.val.t = "PauliList"
        /\ out.val.items = cz_gens.items
        /\ calls = <<>>
        /\ frame.group_gens = cz_gens

\* C6 witness: the empty collection was asked with a two-element list G.
C6_Witness ==
    /\ CzDone
    /\ coll.items = <<>>
    /\ cz_gens.t = "list"
    /\ Len(cz_gens.items) = 2
    /\ out.val = MkPauliList(cz_gens.items)

\* C7: for a non-empty collection of fully specified Paulis, every element
\* centralizer_gens returns commutes with every element of the collection.
C7_ResultCommutesWithAll ==
    (CzDone /\ Len(coll.items) >= 1 /\ FullySpecified(coll)) =>
        /\ out.val.t = "PauliList"
        /\ \A g \in 1..Len(out.val.items) : \A k \in 1..Len(coll.items) :
              com(out.val.items[g], coll.items[k]) = 0

\* C7 witness: two different operators were narrowed in turn, the first
\* narrowing changed the generators and something is left at the end.
C7_Witness ==
    /\ CzDone
    /\ Len(coll.items) = 2
    /\ FullySpecified(coll)
    /\ coll.items[1].op # coll.items[2].op
    /\ out.val.t = "PauliList"
    /\ out.val.items # <<>>
    /\ Len(calls) = 2
    /\ calls[1].result.items # calls[1].gens.items
    /\ \E g \in 1..Len(calls[2].gens.items) :
          com(calls[2].gens.items[g], coll.items[1]) = 0

\* C8: generated_group() on a collection holding an Unspecified element
\* fails with InvalidOperatorError.
C8_GeneratedGroupRefusesUnspecified ==
    (out.op = "generated_group" /\ HasUnspecified(coll)) =>
        out.val = Raise("InvalidOperatorError")

\* C9: stabilizer_subspace() hands mutual_eigenspace the unitaries of the
\* non-Unspecified elements, in order and nothing else, returns what
\* mutual_eigenspace returns, and gives the same result for collections that
\* differ only in Unspecified entries.
C9_SubspaceDropsUnspecified ==
    out.op = "stabilizer_subspace" =>
        /\ out.a.t = "list"
        /\ Len(out.a.items) = Len(NonUnspecified(coll.items))
        /\ \A m \in 1..Len(out.a.items) :
              out.a.items[m] = as_unitary(NonUnspecified(coll.items)[m])
        /\ out.val = out.b
        /\ \A xs \in SeqsUpTo(Elems, MaxLen) :
              NonUnspecified(xs) = NonUnspecified(coll.items) =>
                  stabilizer_subspace(MkPauliList(xs), out.val.t = "ndarray") = out.val

\* C9 witness: a collection with an Unspecified entry and a Pauli gave a
\* basis computed from fewer matrices than the collection has elements.
C9_Witness ==
    /\ out.op = "stabilizer_subspace"
    /\ HasUnspecified(coll)
    /\ Len(coll.items) = 2
    /\ out.val.t = "ndarray"
    /\ Len(out.val.items) = 1

====
